---- MODULE Spec2Model ----
(***************************************************************************)
(* Streaming script execution of backend/services/script_manager.py:       *)
(* run_script_stream starts _runner on a pool thread, _runner imports the  *)
(* script module, redirects sys.stdout / sys.stderr into two _LineEmitter  *)
(* objects, calls run(params, lang) and reports through an asyncio.Queue   *)
(* that the async generator drains until it has yielded {"type":"exit"}.   *)
(*                                                                         *)
(* A text is a sequence of one-character strings.  An execution is one     *)
(* call of run_script_stream (its queue, its worker, its generator).       *)
(***************************************************************************)
EXTENDS Naturals, Sequences, FiniteSets, TLC

\* The executions that may run in one process.
Executions == {1, 2}

\* Number of write() calls the body of one script may perform, when one
\* execution runs and when two run simultaneously.
MaxWrites == 3
MaxWritesConc == 1

\* Number of write() and flush() calls one emitter driven directly receives,
\* and the longest text of one write().
MaxCalls == 3
MaxTextLen == 2

Kinds == {"stdout", "stderr"}

\* The character a script of execution e prints (distinct per execution, so
\* that the origin of a line can be read off its text).
CharOf(e) == IF e = 1 THEN "a" ELSE "b"

\* The texts one write() call of execution e's script passes: a partial line
\* and a newline-terminated line.
Chunks(e) == { <<CharOf(e)>>, <<CharOf(e), "\n">> }

\* Values a script may return.
RetVals == {"r1", "r2"}

\* What a module offers as run: none, a run of one parameter, run(params, lang).
Modules == {"norun", "badsig", "ok"}

\* The package every script module is imported from.
Root == "tutorials_wrapper"

\* The modules the process can import, by dotted name (a sequence of names
\* and "."), each with what it offers as run: the script root with its
\* scripts, and a module outside the script root.
ModuleFiles ==
    (<<Root>> :> "norun") @@
    (<<Root, ".", "runtime">> :> "norun") @@
    (<<Root, ".", "beginner">> :> "norun") @@
    (<<Root, ".", "beginner", ".", "ollama_function_call">> :> "ok") @@
    (<<Root, ".", "beginner", ".", "sma_strategy">> :> "badsig") @@
    (<<"os">> :> "norun")

\* The script_path values a request may carry (sequences of names, "/" and
\* "."): three scripts, one of them also with a dot for the slash, an unknown
\* script, a traversal ("../os"), a module outside the script root.
Paths ==
    { <<"beginner", "/", "ollama_function_call">>,
      <<"beginner", "/", "sma_strategy">>,
      <<"beginner", ".", "sma_strategy">>,
      <<"runtime">>,
      <<"nope", "/", "nope">>,
      <<".", ".", "/", "os">>,
      <<"os">> }

\* Faults that are subclasses of Exception, and those that are not.
ExceptionFaults == {"ModuleNotFoundError", "ValueError", "TypeError", "ScriptError"}
BaseFaults == {"SystemExit"}

----------------------------------------------------------------------------
\* Text helpers (str.strip, "\n" in s, s.split("\n", 1)).

IsSpace(c) == c \in {" ", "\n", "\t"}

RECURSIVE LStrip(_)
LStrip(s) == IF s # <<>> /\ IsSpace(Head(s)) THEN LStrip(Tail(s)) ELSE s

RECURSIVE RStrip(_)
RStrip(s) ==
    IF s # <<>> /\ IsSpace(s[Len(s)]) THEN RStrip(SubSeq(s, 1, Len(s) - 1)) ELSE s

Strip(s) == RStrip(LStrip(s))

HasNewline(s) == \E i \in 1..Len(s) : s[i] = "\n"

FirstNewline(s) == CHOOSE i \in 1..Len(s) :
    /\ s[i] = "\n"
    /\ \A j \in 1..(i - 1) : s[j] # "\n"

\* sub occurs in s ("sub in s").
Contains(s, sub) ==
    \E i \in 0..(Len(s) - Len(sub)) : SubSeq(s, i + 1, i + Len(sub)) = sub

----------------------------------------------------------------------------
\* The loader.

\* script_path.replace("/", ".")
Replace(p) == [i \in DOMAIN p |-> IF p[i] = "/" THEN "." ELSE p[i]]

\* The module path without the script root in front.
ModulePath_no_root(p) == Replace(p)

\* module_path = f"tutorials_wrapper.{script_path.replace('/', '.')}"
ModulePath(p) == <<Root, ".">> \o Replace(p)

\* The lengths of the dotted prefixes of name n that import_module imports
\* in turn, parents first (name.rpartition(".")[0], down to the top package).
Parents(n) == {k \in 1..Len(n) : k = Len(n) \/ n[k + 1] = "."}

\* The prefixes of n that no module file answers.
MissingAt(n) == {k \in Parents(n) : SubSeq(n, 1, k) \notin DOMAIN ModuleFiles}

\* An import that takes any name for found once sys.modules holds a module.
Importable_once_warm(n, cache) == cache # {} \/ MissingAt(n) = {}

\* import_module(n) succeeds: n is in sys.modules, or every prefix is found.
Importable(n, cache) == n \in cache \/ MissingAt(n) = {}

\* The name in "No module named '...'": the first prefix that is not found.
FirstMissing(n) ==
    SubSeq(n, 1, CHOOSE k \in MissingAt(n) : \A j \in MissingAt(n) : k <= j)

\* sys.modules after import_module(n): the prefixes of n that were found
\* before one was missing (all of them, n included, when none is missing).
Loaded(n, cache) ==
    cache \cup {SubSeq(n, 1, k) : k \in {i \in Parents(n) : \A j \in MissingAt(n) : i < j}}

\* An error text that leaves out the fault.
Rendered_no_fault(x, p) == <<"Traceback (most recent call last):">>

\* traceback.format_exception of the fault x raised for script_path p: the
\* text ends with the fault's type and message.
Rendered(x, p) ==
    <<"Traceback (most recent call last):">> \o
    CASE x = "ModuleNotFoundError" ->
             <<"ModuleNotFoundError: No module named ">> \o FirstMissing(ModulePath(p))
      [] x = "ValueError" ->
             <<"ValueError: script ">> \o p \o <<" missing 'run(params, lang)'">>
      [] x = "TypeError" ->
             <<"TypeError: run() takes 1 positional argument but 2 were given">>
      [] OTHER -> <<x>>

----------------------------------------------------------------------------
\* Events put on the queue.

OutputEv(kind, text) == [type |-> kind, text |-> text]
ResultEv(r) == [type |-> "result", result |-> r]
ErrorEv(m) == [type |-> "error", error |-> m]
ExitEv == [type |-> "exit"]

\* _LineEmitter.write: the buffer after the call and the events it put.
RECURSIVE WriteLoop(_, _, _)
WriteLoop(kind, b, evs) ==
    IF HasNewline(b)
    THEN LET i == FirstNewline(b)
             line == SubSeq(b, 1, i - 1)
             rest == SubSeq(b, i + 1, Len(b))
         IN  WriteLoop(kind, rest,
                 IF Strip(line) # <<>> THEN Append(evs, OutputEv(kind, line)) ELSE evs)
    ELSE [buf |-> b, events |-> evs]

\* A write that forgets what earlier calls left in the buffer.
write_unbuffered(kind, b, s) == WriteLoop(kind, s, <<>>)

write(kind, b, s) == WriteLoop(kind, b \o s, <<>>)

\* A flush that puts the rest of the buffer whatever it holds.
flush_unfiltered(kind, b) ==
    [buf    |-> <<>>,
     events |-> <<OutputEv(kind, Strip(b))>>]

\* A flush that leaves the buffer as it is.
flush_keep(kind, b) ==
    [buf    |-> b,
     events |-> IF Strip(b) # <<>> THEN <<OutputEv(kind, Strip(b))>> ELSE <<>>]

\* _LineEmitter.flush: the buffer after the call and the events it put.
flush(kind, b) ==
    [buf    |-> <<>>,
     events |-> IF Strip(b) # <<>> THEN <<OutputEv(kind, Strip(b))>> ELSE <<>>]

----------------------------------------------------------------------------
VARIABLES
    wpc,         \* wpc[e]: position of the worker thread in _runner
    cpc,         \* cpc[e]: position of the async generator run_script_stream
    queue,       \* queue[e]: items of the asyncio.Queue of execution e
    produced,    \* produced[e]: every event put on queue[e], in put order
    yielded,     \* yielded[e]: every event the generator has yielded
    buf,         \* buf[e][k]: _buf of execution e's emitter of kind k
    sys_stdout,  \* sys.stdout: <<0, "stdout">> or the emitter <<e, "stdout">>
    sys_stderr,  \* sys.stderr: <<0, "stderr">> or the emitter <<e, "stderr">>
    old_stdout,  \* old_stdout[e]: _old_targets of e's redirect_stdout
    old_stderr,  \* old_stderr[e]: _old_targets of e's redirect_stderr
    module,      \* module[e]: what the import of the script path found
    raised,      \* raised[e]: the fault in flight in _runner, or "none"
    result,      \* result[e]: the value run_fn returned, or "none"
    nwrites,     \* nwrites[e]: write() calls the script body has made
    fut,         \* fut[e]: state of the future of run_in_executor
    loopSelect,  \* the event loop thread is blocked in select()
    path,        \* path[e]: the script_path argument of execution e
    sys_modules, \* sys.modules: the names of the modules imported so far
    pend,        \* pend[e]: the stream object and text of a print under way
    em,          \* one _LineEmitter driven directly (its calls and its events)
    thrown,      \* thrown[e]: the fault the consumer side raised into the generator
    guard,       \* guard[e]: the guard_run decoration of the entry point of e
    sent,        \* sent[e]: the transport messages event_gen has yielded
    http,        \* http[e]: the state of the SSE response of e
    log          \* log[e]: the text the code of script e has written, in order

vars == <<wpc, cpc, queue, produced, yielded, buf, sys_stdout, sys_stderr,
          old_stdout, old_stderr, module, raised, result, nwrites, fut, loopSelect,
          path, sys_modules, pend, em, thrown, guard, sent, http, log>>

\* The streams the process started with.
OrigStdout == <<0, "stdout">>
OrigStderr == <<0, "stderr">>

EmptyBufs == [k \in Kinds |-> <<>>]

\* No emitter is driven directly. An emitter driven directly has its kind,
\* its buffer and the events it has put; the model also keeps the text written
\* to it, the numbers of calls and of flush() calls, the last call and the one
\* before it, and of the last call the argument, the buffer it found and the
\* number of events it put.
NoEmitter ==
    [kind |-> "none", buf |-> <<>>, events |-> <<>>, written |-> <<>>, calls |-> 0,
     flushes |-> 0, last |-> "none", prev |-> "none", arg |-> <<>>, before |-> <<>>,
     nput |-> 0]

InitFor(requests) ==
    /\ wpc = [e \in Executions |-> "idle"]
    /\ cpc = [e \in Executions |-> IF e \in requests THEN "idle" ELSE "absent"]
    /\ queue = [e \in Executions |-> <<>>]
    /\ produced = [e \in Executions |-> <<>>]
    /\ yielded = [e \in Executions |-> <<>>]
    /\ buf = [e \in Executions |-> EmptyBufs]
    /\ sys_stdout = OrigStdout
    /\ sys_stderr = OrigStderr
    /\ old_stdout = [e \in Executions |-> OrigStdout]
    /\ old_stderr = [e \in Executions |-> OrigStderr]
    /\ module = [e \in Executions |-> <<>>]
    /\ raised = [e \in Executions |-> "none"]
    /\ result = [e \in Executions |-> "none"]
    /\ nwrites = [e \in Executions |-> 0]
    /\ fut = [e \in Executions |-> "pending"]
    /\ loopSelect = FALSE
    /\ path = [e \in Executions |-> <<>>]
    /\ sys_modules = {}
    /\ pend = [e \in Executions |-> <<>>]
    /\ em = NoEmitter
    /\ thrown = [e \in Executions |-> "none"]
    /\ sent = [e \in Executions |-> <<>>]
    /\ http = [e \in Executions |-> "open"]
    /\ log = [e \in Executions |-> <<>>]

\* No entry point is decorated with guard_run.
Undecorated == [e \in Executions |-> "none"]

\* One request in the process.
Init == InitFor({1}) /\ guard = Undecorated

\* Two simultaneous requests in the process.
InitConc == InitFor(Executions) /\ guard = Undecorated

----------------------------------------------------------------------------
\* Shared pieces of the actions.

Last(s) == s[Len(s)]

\* A put that places the items before the ones already in the queue.
put_nowait_front(q, evs) ==
    /\ queue' = [queue EXCEPT ![q] = evs \o @]
    /\ produced' = [produced EXCEPT ![q] = evs \o @]
    /\ cpc' = IF evs # <<>> /\ cpc[q] = "suspended"
              THEN [cpc EXCEPT ![q] = "woken"]
              ELSE cpc

\* queue.put_nowait for each event of evs, in order, on the queue of execution
\* q: Queue._put appends the item, Queue._wakeup_next pops the pending getter
\* and sets its result (from the worker thread, by Future.set_result, which
\* schedules the generator's wake-up with loop.call_soon).
put_nowait(q, evs) ==
    /\ queue' = [queue EXCEPT ![q] = @ \o evs]
    /\ produced' = [produced EXCEPT ![q] = @ \o evs]
    /\ cpc' = IF evs # <<>> /\ cpc[q] = "suspended"
              THEN [cpc EXCEPT ![q] = "woken"]
              ELSE cpc

\* The stream object a write of the script to sys.<k> reaches.
Target(k) == IF k = "stdout" THEN sys_stdout ELSE sys_stderr

\* An entry of log: text s written to sys.<kind> in a phase of the execution
\* ("import": module code run by the import, "run": the body of run,
\* "guard": guard_run).
Written(phase, kind, s) == [phase |-> phase, kind |-> kind, text |-> s]

\* The event loop thread is executing callbacks: it is not blocked in select()
\* and no SystemExit has been raised into it.
LoopRunning == ~loopSelect /\ \A e \in Executions : cpc[e] # "escaped"

\* The generator of execution e has something for the loop to run.
Runnable(e) ==
    \/ cpc[e] \in {"get", "getter", "woken", "yielded"}
    \/ cpc[e] = "finally" /\ fut[e] # "pending"

----------------------------------------------------------------------------
\* run_script_stream(script_path, params, lang) up to its first await: the
\* queue is created and _runner is handed to the thread pool.
Start(e) ==
    /\ cpc[e] = "idle"
    /\ \A x \in Executions : cpc[x] # "escaped"
    /\ \E p \in Paths : path' = [path EXCEPT ![e] = p]
    /\ cpc' = [cpc EXCEPT ![e] = "get"]
    /\ wpc' = [wpc EXCEPT ![e] = "import"]
    /\ loopSelect' = FALSE
    /\ UNCHANGED <<thrown, guard, sent, http, log, sys_modules, pend, em, queue, produced, yielded, buf, sys_stdout, sys_stderr,
                   old_stdout, old_stderr, module, raised, result, nwrites, fut>>

\* The text module code writes when an import runs it.
ImportText == <<"i", "\n">>

\* Module code that writes as if the emitters of e were installed already.
ImportPrint_captured(e) ==
    /\ wpc[e] = "import"
    /\ ModulePath(path[e]) \notin sys_modules
    /\ Importable(ModulePath(path[e]), sys_modules)
    /\ log[e] = <<>>
    /\ \E k \in Kinds :
           /\ log' = [log EXCEPT ![e] = Append(@, Written("import", k, ImportText))]
           /\ LET r == write(k, buf[e][k], ImportText) IN
              /\ buf' = [buf EXCEPT ![e][k] = r.buf]
              /\ put_nowait(e, r.events)
    /\ UNCHANGED <<thrown, guard, sent, http, path, sys_modules, pend, em, wpc, yielded, sys_stdout,
                   sys_stderr, old_stdout, old_stderr, module, raised, result, nwrites, fut,
                   loopSelect>>

\* importlib.import_module executes the code of a module it loads, and that
\* code may write to sys.stdout or sys.stderr: the object installed there at
\* that moment receives the text.  A module in sys.modules is not executed.
ImportPrint(e) ==
    /\ wpc[e] = "import"
    /\ ModulePath(path[e]) \notin sys_modules
    /\ Importable(ModulePath(path[e]), sys_modules)
    /\ log[e] = <<>>
    /\ \E k \in Kinds :
           /\ log' = [log EXCEPT ![e] = Append(@, Written("import", k, ImportText))]
           /\ LET t == Target(k) IN
              IF t[1] = 0
              THEN UNCHANGED <<buf, queue, produced, cpc>>
              ELSE LET r == write(t[2], buf[t[1]][t[2]], ImportText) IN
                   /\ buf' = [buf EXCEPT ![t[1]][t[2]] = r.buf]
                   /\ put_nowait(t[1], r.events)
    /\ UNCHANGED <<thrown, guard, sent, http, path, sys_modules, pend, em, wpc, yielded, sys_stdout,
                   sys_stderr, old_stdout, old_stderr, module, raised, result, nwrites, fut,
                   loopSelect>>

\* An import whose failure skips the except clause.
ImportModule_unreported(e) ==
    /\ wpc[e] = "import"
    /\ LET n == ModulePath(path[e]) IN
        IF Importable(n, sys_modules)
        THEN /\ module' = [module EXCEPT ![e] = n]
             /\ sys_modules' = Loaded(n, sys_modules)
             /\ raised' = raised
             /\ wpc' = [wpc EXCEPT ![e] = "getattr"]
        ELSE /\ raised' = [raised EXCEPT ![e] = "ModuleNotFoundError"]
             /\ wpc' = [wpc EXCEPT ![e] = "finally"]
             /\ sys_modules' = Loaded(n, sys_modules)
             /\ module' = module
    /\ UNCHANGED <<thrown, guard, sent, http, log, path, pend, em, cpc, queue, produced, yielded, buf, sys_stdout, sys_stderr,
                   old_stdout, old_stderr, result, nwrites, fut, loopSelect>>

\* importlib.import_module(module_path): the module of that name, from
\* sys.modules or found and loaded with its parents; a name that no module
\* answers raises ModuleNotFoundError.
ImportModule(e) ==
    /\ wpc[e] = "import"
    /\ LET n == ModulePath(path[e]) IN
        IF Importable(n, sys_modules)
        THEN /\ module' = [module EXCEPT ![e] = n]
             /\ sys_modules' = Loaded(n, sys_modules)
             /\ raised' = raised
             /\ wpc' = [wpc EXCEPT ![e] = "getattr"]
        ELSE /\ raised' = [raised EXCEPT ![e] = "ModuleNotFoundError"]
             /\ wpc' = [wpc EXCEPT ![e] = "except"]
             /\ sys_modules' = Loaded(n, sys_modules)
             /\ module' = module
    /\ UNCHANGED <<thrown, guard, sent, http, log, path, pend, em, cpc, queue, produced, yielded, buf, sys_stdout, sys_stderr,
                   old_stdout, old_stderr, result, nwrites, fut, loopSelect>>

\* A loader that takes every module for one with a callable run.
CheckCallable_unchecked(e) ==
    /\ wpc[e] = "getattr"
    /\ wpc' = [wpc EXCEPT ![e] = "enter_out"]
    /\ UNCHANGED <<thrown, guard, sent, http, log, path, sys_modules, pend, em, cpc, queue, produced, yielded, buf, sys_stdout, sys_stderr,
                   old_stdout, old_stderr, module, raised, result, nwrites, fut, loopSelect>>

\* run_fn = getattr(script_module, "run", None); not callable raises ValueError.
\* The two emitters are then created with empty buffers.
CheckCallable(e) ==
    /\ wpc[e] = "getattr"
    /\ IF ModuleFiles[module[e]] = "norun"
       THEN /\ raised' = [raised EXCEPT ![e] = "ValueError"]
            /\ wpc' = [wpc EXCEPT ![e] = "except"]
       ELSE /\ raised' = raised
            /\ wpc' = [wpc EXCEPT ![e] = "enter_out"]
    /\ UNCHANGED <<thrown, guard, sent, http, log, path, sys_modules, pend, em, cpc, queue, produced, yielded, buf, sys_stdout, sys_stderr,
                   old_stdout, old_stderr, module, result, nwrites, fut, loopSelect>>

\* redirect_stdout(out).__enter__: remember sys.stdout, install the emitter.
EnterStdout(e) ==
    /\ wpc[e] = "enter_out"
    /\ old_stdout' = [old_stdout EXCEPT ![e] = sys_stdout]
    /\ sys_stdout' = <<e, "stdout">>
    /\ wpc' = [wpc EXCEPT ![e] = "enter_err"]
    /\ UNCHANGED <<thrown, guard, sent, http, log, path, sys_modules, pend, em, cpc, queue, produced, yielded, buf, sys_stderr, old_stderr,
                   module, raised, result, nwrites, fut, loopSelect>>

\* redirect_stderr(err).__enter__.
EnterStderr(e) ==
    /\ wpc[e] = "enter_err"
    /\ old_stderr' = [old_stderr EXCEPT ![e] = sys_stderr]
    /\ sys_stderr' = <<e, "stderr">>
    /\ wpc' = [wpc EXCEPT ![e] = "call"]
    /\ UNCHANGED <<thrown, guard, sent, http, log, path, sys_modules, pend, em, cpc, queue, produced, yielded, buf, sys_stdout, old_stdout,
                   module, raised, result, nwrites, fut, loopSelect>>

\* Where a fault x raised by the entry point goes: into the except clause
\* of guard_run's wrapper if the entry point is decorated and x is an
\* Exception, otherwise out of the with block.
AfterRaise(e, x) ==
    IF guard[e] # "none" /\ x \in ExceptionFaults THEN "guard" ELSE "exit_err"

\* A call that runs the body of run whatever arguments run accepts.
CallRun_any_signature(e) ==
    /\ wpc[e] = "call"
    /\ raised' = raised
    /\ wpc' = [wpc EXCEPT ![e] = "body"]
    /\ UNCHANGED <<thrown, guard, sent, http, log, path, sys_modules, pend, em, cpc, queue, produced, yielded, buf, sys_stdout, sys_stderr,
                   old_stdout, old_stderr, module, result, nwrites, fut, loopSelect>>

\* run_fn(params, lang): a run that does not take two arguments raises
\* TypeError before its body starts.
CallRun(e) ==
    /\ wpc[e] = "call"
    /\ IF ModuleFiles[module[e]] = "badsig"
       THEN /\ raised' = [raised EXCEPT ![e] = "TypeError"]
            /\ wpc' = [wpc EXCEPT ![e] = AfterRaise(e, "TypeError")]
       ELSE /\ raised' = raised
            /\ wpc' = [wpc EXCEPT ![e] = "body"]
    /\ UNCHANGED <<thrown, guard, sent, http, log, path, sys_modules, pend, em, cpc, queue, produced, yielded, buf, sys_stdout, sys_stderr,
                   old_stdout, old_stderr, module, result, nwrites, fut, loopSelect>>

\* The number of write() calls a script body is followed for.
WriteBound ==
    IF \A x \in Executions : cpc[x] # "absent" THEN MaxWritesConc ELSE MaxWrites

\* The script body writes text s to sys.stdout or sys.stderr (print): the
\* object installed there at that moment receives write(s).
ScriptWrite(e) ==
    /\ wpc[e] = "body"
    /\ nwrites[e] < WriteBound
    /\ \E k \in Kinds, s \in Chunks(e) :
        /\ log' = [log EXCEPT ![e] = Append(@, Written("run", k, s))]
        /\ LET t == Target(k) IN
           IF t[1] = 0
           THEN UNCHANGED <<buf, queue, produced, cpc>>
           ELSE LET r == write(t[2], buf[t[1]][t[2]], s) IN
                /\ buf' = [buf EXCEPT ![t[1]][t[2]] = r.buf]
                /\ put_nowait(t[1], r.events)
    /\ nwrites' = [nwrites EXCEPT ![e] = @ + 1]
    /\ UNCHANGED <<thrown, guard, sent, http, path, sys_modules, pend, em, wpc, yielded, sys_stdout, sys_stderr, old_stdout, old_stderr,
                   module, raised, result, fut, loopSelect>>

\* With several worker threads a print is two steps: print reads sys.<k>,
\* and then calls write(s) of the object it read, whatever sys.<k> is by then.
ScriptPrint(e) ==
    /\ wpc[e] = "body"
    /\ nwrites[e] < WriteBound
    /\ \E k \in Kinds, s \in Chunks(e) :
           /\ pend' = [pend EXCEPT ![e] = <<Target(k), s>>]
           /\ log' = [log EXCEPT ![e] = Append(@, Written("run", k, s))]
    /\ wpc' = [wpc EXCEPT ![e] = "print"]
    /\ nwrites' = [nwrites EXCEPT ![e] = @ + 1]
    /\ UNCHANGED <<thrown, guard, sent, http, path, sys_modules, em, cpc, queue, produced, yielded, buf, sys_stdout,
                   sys_stderr, old_stdout, old_stderr, module, raised, result, fut,
                   loopSelect>>

ScriptPrintWrite(e) ==
    /\ wpc[e] = "print"
    /\ LET t == pend[e][1]
           s == pend[e][2]
       IN  IF t[1] = 0
           THEN UNCHANGED <<buf, queue, produced, cpc>>
           ELSE LET r == write(t[2], buf[t[1]][t[2]], s) IN
                /\ buf' = [buf EXCEPT ![t[1]][t[2]] = r.buf]
                /\ put_nowait(t[1], r.events)
    /\ pend' = [pend EXCEPT ![e] = <<>>]
    /\ wpc' = [wpc EXCEPT ![e] = "body"]
    /\ UNCHANGED <<thrown, guard, sent, http, log, path, sys_modules, em, yielded, sys_stdout, sys_stderr, old_stdout,
                   old_stderr, module, raised, result, nwrites, fut, loopSelect>>

\* The script body returns a value.
ScriptReturn(e) ==
    /\ wpc[e] = "body"
    /\ \E v \in RetVals : result' = [result EXCEPT ![e] = v]
    /\ wpc' = [wpc EXCEPT ![e] = "exit_err"]
    /\ UNCHANGED <<thrown, guard, sent, http, log, path, sys_modules, pend, em, cpc, queue, produced, yielded, buf, sys_stdout, sys_stderr,
                   old_stdout, old_stderr, module, raised, nwrites, fut, loopSelect>>

\* The script body raises: an Exception, or a fault that is not an Exception
\* (sys.exit() raises SystemExit).
ScriptRaise(e) ==
    /\ wpc[e] = "body"
    /\ \E x \in {"ScriptError", "SystemExit"} :
           /\ raised' = [raised EXCEPT ![e] = x]
           /\ wpc' = [wpc EXCEPT ![e] = AfterRaise(e, x)]
    /\ UNCHANGED <<thrown, guard, sent, http, log, path, sys_modules, pend, em, cpc, queue, produced, yielded, buf, sys_stdout, sys_stderr,
                   old_stdout, old_stderr, module, result, nwrites, fut, loopSelect>>

\* str(exc) of a fault, and the dict guard_run returns for it.
Message(x) == <<x>>
ErrorDict(x) == [error |-> Message(x)]

\* A wrapper that prints nothing.
GuardCatch_silent(e) ==
    /\ wpc[e] = "guard"
    /\ log' = [log EXCEPT ![e] = Append(@, Written("guard", "stdout", <<"ERROR: ">> \o Message(raised[e]) \o <<"\n">>))]
    /\ IF guard[e] = "reraise"
       THEN UNCHANGED <<raised, result>>
       ELSE /\ result' = [result EXCEPT ![e] = ErrorDict(raised[e])]
            /\ raised' = [raised EXCEPT ![e] = "none"]
    /\ wpc' = [wpc EXCEPT ![e] = "exit_err"]
    /\ UNCHANGED <<thrown, guard, sent, http, path, sys_modules, pend, em, yielded, sys_stdout,
                   sys_stderr, old_stdout, old_stderr, module, nwrites, fut, loopSelect,
                   buf, queue, produced, cpc>>

\* guard_run's wrapper, except Exception as exc: print(f"ERROR: {exc}") writes
\* the line to sys.stdout; then raise, or return {"error": str(exc)}.
GuardCatch(e) ==
    /\ wpc[e] = "guard"
    /\ LET s == <<"ERROR: ">> \o Message(raised[e]) \o <<"\n">>
           t == Target("stdout")
       IN  /\ log' = [log EXCEPT ![e] = Append(@, Written("guard", "stdout", s))]
           /\ IF t[1] = 0
              THEN UNCHANGED <<buf, queue, produced, cpc>>
              ELSE LET r == write(t[2], buf[t[1]][t[2]], s) IN
                   /\ buf' = [buf EXCEPT ![t[1]][t[2]] = r.buf]
                   /\ put_nowait(t[1], r.events)
    /\ IF guard[e] = "reraise"
       THEN UNCHANGED <<raised, result>>
       ELSE /\ result' = [result EXCEPT ![e] = ErrorDict(raised[e])]
            /\ raised' = [raised EXCEPT ![e] = "none"]
    /\ wpc' = [wpc EXCEPT ![e] = "exit_err"]
    /\ UNCHANGED <<thrown, guard, sent, http, path, sys_modules, pend, em, yielded, sys_stdout,
                   sys_stderr, old_stdout, old_stderr, module, nwrites, fut, loopSelect>>

\* redirect_stderr.__exit__: sys.stderr = _old_targets.pop(), on return and on
\* a fault alike.
ExitStderr(e) ==
    /\ wpc[e] = "exit_err"
    /\ sys_stderr' = old_stderr[e]
    /\ wpc' = [wpc EXCEPT ![e] = "exit_out"]
    /\ UNCHANGED <<thrown, guard, sent, http, log, path, sys_modules, pend, em, cpc, queue, produced, yielded, buf, sys_stdout, old_stdout,
                   old_stderr, module, raised, result, nwrites, fut, loopSelect>>

\* Where _runner continues after the with block: the statements after it when
\* run_fn returned, the except clause for an Exception, the finally clause for
\* any other fault.
AfterWith(e) ==
    IF raised[e] = "none" THEN "flush_out"
    ELSE IF raised[e] \in ExceptionFaults THEN "except"
    ELSE "finally"

\* redirect_stdout.__exit__ restoring sys.stdout only when run_fn returned.
ExitStdout_return_only(e) ==
    /\ wpc[e] = "exit_out"
    /\ sys_stdout' = IF raised[e] = "none" THEN old_stdout[e] ELSE sys_stdout
    /\ wpc' = [wpc EXCEPT ![e] = AfterWith(e)]
    /\ UNCHANGED <<thrown, guard, sent, http, log, path, sys_modules, pend, em, cpc, queue, produced, yielded, buf, sys_stderr, old_stdout,
                   old_stderr, module, raised, result, nwrites, fut, loopSelect>>

\* redirect_stdout.__exit__: sys.stdout = _old_targets.pop().
ExitStdout(e) ==
    /\ wpc[e] = "exit_out"
    /\ sys_stdout' = old_stdout[e]
    /\ wpc' = [wpc EXCEPT ![e] = AfterWith(e)]
    /\ UNCHANGED <<thrown, guard, sent, http, log, path, sys_modules, pend, em, cpc, queue, produced, yielded, buf, sys_stderr, old_stdout,
                   old_stderr, module, raised, result, nwrites, fut, loopSelect>>

\* An emitter flush of execution e's emitter of kind k, then on to pc next.
FlushStep(e, k, next) ==
    LET r == flush(k, buf[e][k]) IN
    /\ buf' = [buf EXCEPT ![e][k] = r.buf]
    /\ put_nowait(e, r.events)
    /\ wpc' = [wpc EXCEPT ![e] = next]
    /\ UNCHANGED <<thrown, guard, sent, http, log, path, sys_modules, pend, em, yielded, sys_stdout, sys_stderr, old_stdout, old_stderr,
                   module, raised, result, nwrites, fut, loopSelect>>

\* err.flush() written where out.flush() belongs.
FlushOut_err_first(e) == wpc[e] = "flush_out" /\ FlushStep(e, "stderr", "flush_err")

\* out.flush()
FlushOut(e) == wpc[e] = "flush_out" /\ FlushStep(e, "stdout", "flush_err")

\* err.flush()
FlushErr(e) == wpc[e] = "flush_err" /\ FlushStep(e, "stderr", "put_result")

\* A result event that does not carry the value run returned.
PutResult_no_value(e) ==
    /\ wpc[e] = "put_result"
    /\ put_nowait(e, <<ResultEv("none")>>)
    /\ wpc' = [wpc EXCEPT ![e] = "finally"]
    /\ UNCHANGED <<thrown, guard, sent, http, log, path, sys_modules, pend, em, yielded, buf, sys_stdout, sys_stderr, old_stdout, old_stderr,
                   module, raised, result, nwrites, fut, loopSelect>>

\* queue.put_nowait({"type": "result", "result": result})
PutResult(e) ==
    /\ wpc[e] = "put_result"
    /\ put_nowait(e, <<ResultEv(result[e])>>)
    /\ wpc' = [wpc EXCEPT ![e] = "finally"]
    /\ UNCHANGED <<thrown, guard, sent, http, log, path, sys_modules, pend, em, yielded, buf, sys_stdout, sys_stderr, old_stdout, old_stderr,
                   module, raised, result, nwrites, fut, loopSelect>>

\* except Exception as e: the rendered traceback is put as the error event.
ExceptHandler(e) ==
    /\ wpc[e] = "except"
    /\ put_nowait(e, <<ErrorEv(Rendered(raised[e], path[e]))>>)
    /\ wpc' = [wpc EXCEPT ![e] = "finally"]
    /\ UNCHANGED <<thrown, guard, sent, http, log, path, sys_modules, pend, em, yielded, buf, sys_stdout, sys_stderr, old_stdout, old_stderr,
                   module, raised, result, nwrites, fut, loopSelect>>

\* finally: queue.put_nowait({"type": "exit"}); _runner then returns, or lets
\* the fault no except clause caught go on to the pool.
Finally(e) ==
    /\ wpc[e] = "finally"
    /\ put_nowait(e, <<ExitEv>>)
    /\ wpc' = [wpc EXCEPT ![e] = "returned"]
    /\ UNCHANGED <<thrown, guard, sent, http, log, path, sys_modules, pend, em, yielded, buf, sys_stdout, sys_stderr, old_stdout, old_stderr,
                   module, raised, result, nwrites, fut, loopSelect>>

\* What the pool stores in the future when _runner has left.
Outcome(e) == IF raised[e] \in BaseFaults THEN raised[e] ELSE "result"

\* The pool completes the future of run_in_executor; its done-callback reaches
\* the loop with call_soon_threadsafe, which wakes a loop blocked in select().
FutureDone(e) ==
    /\ wpc[e] = "returned"
    /\ fut' = [fut EXCEPT ![e] = Outcome(e)]
    /\ wpc' = [wpc EXCEPT ![e] = "done"]
    /\ loopSelect' = FALSE
    /\ UNCHANGED <<thrown, guard, sent, http, log, path, sys_modules, pend, em, cpc, queue, produced, yielded, buf, sys_stdout, sys_stderr,
                   old_stdout, old_stderr, module, raised, result, nwrites>>

----------------------------------------------------------------------------
\* The async generator, run by the event loop thread for a consumer that
\* keeps pulling.

\* get_nowait taking the newest item instead of the oldest.
get_nowait_newest(e) ==
    /\ yielded' = [yielded EXCEPT ![e] = Append(@, Last(queue[e]))]
    /\ queue' = [queue EXCEPT ![e] = SubSeq(@, 1, Len(@) - 1)]

\* ev = await queue.get(), Queue.get: an empty queue makes the generator
\* create a getter future; otherwise get_nowait pops the oldest item, which
\* yield ev hands to the consumer.
get_nowait(e) ==
    /\ yielded' = [yielded EXCEPT ![e] = Append(@, Head(queue[e]))]
    /\ queue' = [queue EXCEPT ![e] = Tail(@)]

QueueGet(e) ==
    /\ cpc[e] = "get"
    /\ LoopRunning
    /\ IF queue[e] = <<>>
       THEN /\ cpc' = [cpc EXCEPT ![e] = "getter"]
            /\ UNCHANGED <<queue, yielded>>
       ELSE /\ get_nowait(e)
            /\ cpc' = [cpc EXCEPT ![e] = "yielded"]
    /\ UNCHANGED <<thrown, guard, sent, http, log, path, sys_modules, pend, em, wpc, produced, buf, sys_stdout, sys_stderr, old_stdout,
                   old_stderr, module, raised, result, nwrites, fut, loopSelect>>

\* Queue.get: self._getters.append(getter); await getter.  The worker thread
\* may have put an item since the queue was seen empty.
AppendGetter(e) ==
    /\ cpc[e] = "getter"
    /\ LoopRunning
    /\ cpc' = [cpc EXCEPT ![e] = "suspended"]
    /\ UNCHANGED <<thrown, guard, sent, http, log, path, sys_modules, pend, em, wpc, queue, produced, yielded, buf, sys_stdout, sys_stderr,
                   old_stdout, old_stderr, module, raised, result, nwrites, fut,
                   loopSelect>>

\* The loop runs the wake-up of a getter whose result was set: Queue.get tests
\* the queue again.
Wakeup(e) ==
    /\ cpc[e] = "woken"
    /\ LoopRunning
    /\ cpc' = [cpc EXCEPT ![e] = "get"]
    /\ UNCHANGED <<thrown, guard, sent, http, log, path, sys_modules, pend, em, wpc, queue, produced, yielded, buf, sys_stdout, sys_stderr,
                   old_stdout, old_stderr, module, raised, result, nwrites, fut,
                   loopSelect>>

\* The generator leaving its loop on the result or error event instead of exit.
AfterYield_on_result(e) ==
    IF Last(yielded[e]).type \in {"result", "error"} THEN "finally" ELSE "get"

\* The generator without the break.
AfterYield_no_break(e) == "get"

\* Where the generator goes when the consumer asks for the next event:
\* if ev.get("type") == "exit": break, else around the loop.
AfterYield(e) == IF Last(yielded[e]).type = "exit" THEN "finally" ELSE "get"

Resume(e) ==
    /\ cpc[e] = "yielded"
    /\ LoopRunning
    /\ cpc' = [cpc EXCEPT ![e] = AfterYield(e)]
    /\ UNCHANGED <<thrown, guard, sent, http, log, path, sys_modules, pend, em, wpc, queue, produced, yielded, buf, sys_stdout, sys_stderr,
                   old_stdout, old_stderr, module, raised, result, nwrites, fut,
                   loopSelect>>

\* How await asyncio.wrap_future(fut) inside try / except Exception: pass
\* ends: an Exception is swallowed, any other fault leaves the generator.
AfterAwait(e) == IF fut[e] \in BaseFaults THEN "escaped" ELSE "done"

\* finally: await asyncio.wrap_future(fut), resumed once the future is done.
AwaitFut(e) ==
    /\ cpc[e] = "finally"
    /\ fut[e] # "pending"
    /\ LoopRunning
    /\ cpc' = [cpc EXCEPT ![e] = AfterAwait(e)]
    /\ UNCHANGED <<thrown, guard, sent, http, log, path, sys_modules, pend, em, wpc, queue, produced, yielded, buf, sys_stdout, sys_stderr,
                   old_stdout, old_stderr, module, raised, result, nwrites, fut,
                   loopSelect>>

\* The loop has nothing to run and blocks in select() without a timeout.
LoopBlock ==
    /\ LoopRunning
    /\ \A e \in Executions : ~Runnable(e)
    /\ loopSelect' = TRUE
    /\ UNCHANGED <<thrown, guard, sent, http, log, path, sys_modules, pend, em, wpc, cpc, queue, produced, yielded, buf, sys_stdout, sys_stderr,
                   old_stdout, old_stderr, module, raised, result, nwrites, fut>>

\* Activity that has nothing to do with the executions (a socket becomes
\* readable, a timer fires) ends the select().
LoopActivity ==
    /\ loopSelect
    /\ loopSelect' = FALSE
    /\ UNCHANGED <<thrown, guard, sent, http, log, path, sys_modules, pend, em, wpc, cpc, queue, produced, yielded, buf, sys_stdout, sys_stderr,
                   old_stdout, old_stderr, module, raised, result, nwrites, fut>>

----------------------------------------------------------------------------
\* _runner around the writes of the script body.
Runner(e) ==
    \/ ImportModule(e) \/ CheckCallable(e)
    \/ EnterStdout(e) \/ EnterStderr(e) \/ CallRun(e)
    \/ ScriptReturn(e) \/ ScriptRaise(e)
    \/ ExitStderr(e) \/ ExitStdout(e)
    \/ FlushOut(e) \/ FlushErr(e) \/ PutResult(e)
    \/ ExceptHandler(e) \/ Finally(e) \/ FutureDone(e)

Worker(e) == Runner(e) \/ ImportPrint(e) \/ ScriptWrite(e)

Generator(e) ==
    \/ Start(e) \/ QueueGet(e) \/ AppendGetter(e) \/ Wakeup(e)
    \/ Resume(e) \/ AwaitFut(e)

Next ==
    \/ \E e \in Executions : Worker(e) \/ Generator(e)
    \/ LoopBlock
    \/ LoopActivity

\* One execution in the process.
Spec == Init /\ [][Next]_vars

\* One execution, with every step of the worker thread and of the generator
\* eventually taken when it stays possible.  Nothing is assumed about
\* LoopActivity: the loop may see no unrelated activity at all.
FairSpec ==
    /\ Spec
    /\ \A e \in Executions : WF_vars(Worker(e)) /\ WF_vars(Generator(e))

\* The consumer gives the stream up while the generator is suspended at
\* yield ev (aclose(), also from the finalizer of a generator nobody holds any
\* more): GeneratorExit is raised at the yield and the finally block runs.
Abandon(e) ==
    /\ cpc[e] = "yielded"
    /\ LoopRunning
    /\ thrown' = [thrown EXCEPT ![e] = "GeneratorExit"]
    /\ cpc' = [cpc EXCEPT ![e] = "finally"]
    /\ UNCHANGED <<guard, sent, http, log, path, sys_modules, pend, em, wpc, queue, produced,
                   yielded, buf, sys_stdout, sys_stderr, old_stdout, old_stderr, module,
                   raised, result, nwrites, fut, loopSelect>>

\* The task that iterates the stream is cancelled while the generator waits
\* in await queue.get() (the client has gone): CancelledError is raised at the
\* await, Queue.get drops its getter, and the finally block runs.  What
\* cancels the task is a callback of the loop, so the loop is not in select().
Cancel(e) ==
    /\ cpc[e] \in {"suspended", "woken"}
    /\ \A x \in Executions : cpc[x] # "escaped"
    /\ thrown' = [thrown EXCEPT ![e] = "CancelledError"]
    /\ cpc' = [cpc EXCEPT ![e] = "finally"]
    /\ loopSelect' = FALSE
    /\ UNCHANGED <<guard, sent, http, log, path, sys_modules, pend, em, wpc, queue, produced,
                   yielded, buf, sys_stdout, sys_stderr, old_stdout, old_stderr, module,
                   raised, result, nwrites, fut>>

\* One execution whose consumer may give the stream up at any event.
NextAbandon == Next \/ \E e \in Executions : Abandon(e) \/ Cancel(e)

SpecAbandon == Init /\ [][NextAbandon]_vars

\* The SSE endpoint: event_gen iterates run_script_stream and yields one
\* transport message for each event.

\* The values run may return that json.dumps rejects (a set, a DataFrame).
Unserializable == {"r2"}

\* json.dumps(ev, ensure_ascii=False) succeeds.
JsonOk(ev) == ~(ev.type = "result" /\ ev.result \in Unserializable)

\* The text json.dumps returns for ev.
Json(ev) == <<"json", ev>>

\* What event_gen yields: {"event": ..., "data": ...}.
Msg(event, data) == [event |-> event, data |-> data]

\* The body of the async for, for the event just yielded: the message of the
\* event, or, when json.dumps raises, the message of the except clause, after
\* which event_gen returns and the response ends.
SseSend(e) ==
    /\ cpc[e] = "yielded"
    /\ http[e] = "open"
    /\ Len(sent[e]) < Len(yielded[e])
    /\ LoopRunning
    /\ LET ev == Last(yielded[e]) IN
       IF JsonOk(ev)
       THEN /\ sent' = [sent EXCEPT ![e] = Append(@, Msg("message", Json(ev)))]
            /\ http' = http
       ELSE /\ sent' = [sent EXCEPT ![e] = Append(@,
                           Msg("error", Json(ErrorEv(<<"Object is not JSON serializable">>))))]
            /\ http' = [http EXCEPT ![e] = "ended"]
    /\ UNCHANGED <<thrown, guard, log, path, sys_modules, pend, em, wpc, cpc, queue, produced,
                   yielded, buf, sys_stdout, sys_stderr, old_stdout, old_stderr, module,
                   raised, result, nwrites, fut, loopSelect>>

\* async for asks for the next event once the message has been yielded.
SsePull(e) ==
    /\ http[e] = "open"
    /\ Len(sent[e]) = Len(yielded[e])
    /\ Resume(e)

\* run_script_stream has ended: the async for ends, event_gen returns and the
\* response ends.
SseEnd(e) ==
    /\ cpc[e] = "done"
    /\ http[e] = "open"
    /\ http' = [http EXCEPT ![e] = "ended"]
    /\ UNCHANGED <<thrown, guard, sent, log, path, sys_modules, pend, em, wpc, cpc, queue,
                   produced, yielded, buf, sys_stdout, sys_stderr, old_stdout, old_stderr,
                   module, raised, result, nwrites, fut, loopSelect>>

\* A fault that is not an Exception leaves run_script_stream: except
\* Exception in event_gen does not catch it and the response breaks off.
SseAbort(e) ==
    /\ cpc[e] = "escaped"
    /\ http[e] = "open"
    /\ http' = [http EXCEPT ![e] = "aborted"]
    /\ UNCHANGED <<thrown, guard, sent, log, path, sys_modules, pend, em, wpc, cpc, queue,
                   produced, yielded, buf, sys_stdout, sys_stderr, old_stdout, old_stderr,
                   module, raised, result, nwrites, fut, loopSelect>>

\* event_gen has returned from its except clause: nobody holds the stream
\* any more and its finalizer closes it.
SseDrop(e) ==
    /\ http[e] = "ended"
    /\ Abandon(e)

NextSse ==
    \/ \E e \in Executions :
           \/ Worker(e)
           \/ Start(e) \/ QueueGet(e) \/ AppendGetter(e) \/ Wakeup(e) \/ AwaitFut(e)
           \/ SseSend(e) \/ SsePull(e) \/ SseEnd(e) \/ SseAbort(e) \/ SseDrop(e)
    \/ LoopBlock
    \/ LoopActivity

\* One execution served by the SSE endpoint.
SpecSse == Init /\ [][NextSse]_vars

\* One execution whose entry point is decorated with guard_run, with
\* reraise=True or reraise=False.
InitGuard ==
    /\ InitFor({1})
    /\ \E g \in {"reraise", "noreraise"} :
           guard = [e \in Executions |-> IF e = 1 THEN g ELSE "none"]

NextGuard == Next \/ \E e \in Executions : GuardCatch(e)

SpecGuard == InitGuard /\ [][NextGuard]_vars

\* Two simultaneous executions in the process, followed on their worker
\* threads: what each _runner does to sys.stdout / sys.stderr and puts on the
\* queues, whatever the generators do with the queues.
NextConc ==
    \E e \in Executions : Start(e) \/ Runner(e) \/ ScriptPrint(e) \/ ScriptPrintWrite(e)

SpecConc == InitConc /\ [][NextConc]_vars

\* Two simultaneous executions whose scripts write nothing: the loader and
\* the rest of _runner, in every interleaving and one after the other.
NextLoad == \E e \in Executions : Start(e) \/ Runner(e)

SpecLoad == InitConc /\ [][NextLoad]_vars

----------------------------------------------------------------------------
\* One _LineEmitter driven directly, by any calls of write() and flush().

\* The characters of the texts written: a letter, a blank, the newline.
Alphabet == {"a", " ", "\n"}

\* The texts one write() call may carry.
Texts == UNION {[1..n -> Alphabet] : n \in 1..MaxTextLen}

RestVars ==
    <<thrown, guard, sent, http, log, path, sys_modules, pend, wpc, cpc, queue, produced, yielded, buf, sys_stdout,
      sys_stderr, old_stdout, old_stderr, module, raised, result, nwrites, fut, loopSelect>>

\* _LineEmitter(q, kind): an empty buffer.
EmInit ==
    /\ em.kind = "none"
    /\ \E k \in Kinds : em' = [NoEmitter EXCEPT !.kind = k]
    /\ UNCHANGED RestVars

\* write(s)
EmWrite ==
    /\ em.kind \in Kinds
    /\ em.calls < MaxCalls
    /\ \E s \in Texts :
           LET r == write(em.kind, em.buf, s) IN
           em' = [em EXCEPT !.buf = r.buf,
                            !.events = @ \o r.events,
                            !.written = @ \o s,
                            !.calls = @ + 1,
                            !.prev = em.last,
                            !.last = "write",
                            !.arg = s,
                            !.before = em.buf,
                            !.nput = Len(r.events)]
    /\ UNCHANGED RestVars

\* flush()
EmFlush ==
    /\ em.kind \in Kinds
    /\ em.calls < MaxCalls
    /\ LET r == flush(em.kind, em.buf) IN
       em' = [em EXCEPT !.buf = r.buf,
                        !.events = @ \o r.events,
                        !.calls = @ + 1,
                        !.flushes = @ + 1,
                        !.prev = em.last,
                        !.last = "flush",
                        !.arg = <<>>,
                        !.before = em.buf,
                        !.nput = Len(r.events)]
    /\ UNCHANGED RestVars

NextEmit == EmInit \/ EmWrite \/ EmFlush

\* No request in the process: only the emitter moves.
InitEmit == InitFor({}) /\ guard = Undecorated

SpecEmit == InitEmit /\ [][NextEmit]_vars

----------------------------------------------------------------------------
\* Properties.

Active(e) == cpc[e] # "absent"

\* The positions of s holding an event of one of the types ts.
Positions(s, ts) == {i \in DOMAIN s : s[i].type \in ts}

ExitYielded(e) == Positions(yielded[e], {"exit"}) # {}

IsPrefix(s, t) == Len(s) <= Len(t) /\ SubSeq(t, 1, Len(s)) = s

\* C1: the events yielded never hold anything after an exit event, a stream
\* that has ended holds exactly one exit event, as its last event, and the
\* worker that has left _runner has put exactly one exit event, as its last.
C1_ExitOnceLast ==
    \A e \in Executions :
        /\ Positions(yielded[e], {"exit"}) \subseteq {Len(yielded[e])}
        /\ cpc[e] \in {"done", "escaped"} => Positions(yielded[e], {"exit"}) = {Len(yielded[e])}
        /\ wpc[e] \in {"returned", "done"} => Positions(produced[e], {"exit"}) = {Len(produced[e])}

\* The stream of a script that raised has ended, with exit last.
C1_Witness ==
    /\ cpc[1] = "done"
    /\ raised[1] = "ScriptError"
    /\ Last(yielded[1]) = ExitEv

\* C2: once _runner has left, the events it put hold exactly one event that
\* is a result or an error, however the entry point left.
C2_OneResultOrError ==
    \A e \in Executions :
        wpc[e] \in {"returned", "done"} =>
            Cardinality(Positions(produced[e], {"result", "error"})) = 1

\* C3: the events yielded are the first events put, in put order; every event
\* put is either yielded or still queued, in put order; a stream that has ended
\* has yielded every event put up to and including exit.
C3_Fifo ==
    \A e \in Executions :
        /\ IsPrefix(yielded[e], produced[e])
        /\ yielded[e] \o queue[e] = produced[e]
        /\ cpc[e] \in {"done", "escaped"} => yielded[e] = produced[e]

\* The generator has yielded an event and another is queued while the script
\* body is still running.
C3_Witness ==
    /\ wpc[1] = "body"
    /\ Len(yielded[1]) = 1
    /\ Len(queue[1]) = 1

\* C4: the consumer of every execution eventually receives the exit event.
C4_ExitDelivered == <>(\A e \in Executions : Active(e) => ExitYielded(e))

\* The characters the script of execution e writes.
OwnText(e, text) == \A j \in DOMAIN text : text[j] \in {CharOf(e), "\n"}

\* C5: every stdout/stderr event put on the queue of an execution carries
\* text written by the script of that execution.
C5_OwnEventsOnly ==
    \A e \in Executions :
        \A i \in Positions(produced[e], Kinds) : OwnText(e, produced[e][i].text)

\* C6: while run_fn executes, sys.stdout and sys.stderr are the two emitters
\* of the execution; before the with block and after it, on every way out of
\* run_fn, they are the streams the process had before.
C6_RedirectScoped ==
    \A e \in Executions :
        Active(e) =>
            /\ wpc[e] \in {"call", "body"} =>
                   sys_stdout = <<e, "stdout">> /\ sys_stderr = <<e, "stderr">>
            /\ wpc[e] \notin {"enter_err", "call", "body", "exit_err", "exit_out"} =>
                   sys_stdout = OrigStdout /\ sys_stderr = OrigStderr

\* run_fn has raised after writing, and the with block has been left.
C6_Witness ==
    /\ wpc[1] = "except"
    /\ raised[1] = "ScriptError"
    /\ nwrites[1] > 0
    /\ sys_stdout = OrigStdout
    /\ sys_stderr = OrigStderr

\* C7: once the error event is put, no emitter of the execution still holds
\* a non-blank partial line.
C7_FlushedBeforeError ==
    \A e \in Executions :
        Positions(produced[e], {"error"}) # {} =>
            \A k \in Kinds : Strip(buf[e][k]) = <<>>

\* C8: when run_fn has returned, the stdout emitter is empty before the stderr
\* emitter is flushed, both are empty before the result event is put, and the
\* result event carries the returned value and is followed by exit alone.
C8_FlushThenResult ==
    \A e \in Executions :
        LET res == Positions(produced[e], {"result"}) IN
        /\ wpc[e] = "flush_err" => buf[e]["stdout"] = <<>> /\ res = {}
        /\ wpc[e] = "put_result" => buf[e] = EmptyBufs /\ res = {}
        /\ \A i \in res :
            /\ buf[e] = EmptyBufs
            /\ produced[e][i] = ResultEv(result[e])
            /\ i >= Len(produced[e]) - 1
            /\ i < Len(produced[e]) => Last(produced[e]) = ExitEv

\* A script left a partial line in each emitter and returned: the flushed
\* stdout line, the flushed stderr line, the result, exit.
C8_Witness ==
    produced[1] = << OutputEv("stdout", <<"a">>), OutputEv("stderr", <<"a">>),
                     ResultEv("r1"), ExitEv >>

\* C9: the future of the worker never holds a fault, and awaiting it never
\* raises out of the generator.
C9_NoFaultEscapes ==
    \A e \in Executions : fut[e] \notin BaseFaults /\ cpc[e] # "escaped"

\* C10: once exit has been yielded, no step yields another event or takes
\* the generator back to queue.get().
C10_StopsAfterExit ==
    [][\A e \in Executions :
          ExitYielded(e) =>
              /\ yielded'[e] = yielded[e]
              /\ queue'[e] = queue[e] \/ IsPrefix(queue[e], queue'[e])
              /\ cpc'[e] \in {"yielded", "finally", "done", "escaped"}]_vars

\* The stream has ended after exit was yielded.
C10_Witness ==
    /\ ExitYielded(1)
    /\ cpc[1] = "done"
    /\ Len(yielded[1]) >= 2

\* The types of the events of s, in order.
Types(s) == [i \in DOMAIN s |-> s[i].type]

\* The worker of e has been started on a script_path.
Requested(e) == wpc[e] # "idle"

\* No module answers the module path of e.
Unresolvable(e) == Requested(e) /\ MissingAt(ModulePath(path[e])) # {}

\* The worker of e has left the loader (lines 45-50) one way or the other.
Resolved(e) == wpc[e] \notin {"idle", "import", "getattr"}

\* e never reached the with block: nothing redirected, run never called.
NeverInvoked(e) ==
    /\ wpc[e] \in {"import", "getattr", "except", "finally", "returned", "done"}
    /\ nwrites[e] = 0
    /\ result[e] = "none"
    /\ old_stdout[e] = OrigStdout /\ old_stderr[e] = OrigStderr
    /\ sys_stdout # <<e, "stdout">> /\ sys_stderr # <<e, "stderr">>
    /\ buf[e] = EmptyBufs

\* C16: when no module answers the script path, the events put and the
\* events yielded are a prefix of [error, exit], all of it once the worker has
\* left and once the stream has ended; run is never called, nothing is
\* written and no redirection is installed.
C16_MissingModule ==
    \A e \in Executions :
        Unresolvable(e) =>
            /\ IsPrefix(Types(produced[e]), <<"error", "exit">>)
            /\ IsPrefix(Types(yielded[e]), <<"error", "exit">>)
            /\ wpc[e] \in {"returned", "done"} => Types(produced[e]) = <<"error", "exit">>
            /\ cpc[e] \in {"done", "escaped"} => Types(yielded[e]) = <<"error", "exit">>
            /\ raised[e] \in {"none", "ModuleNotFoundError"}
            /\ NeverInvoked(e)

\* The stream of the unknown script has ended after error and exit.
C16_Witness ==
    /\ path[1] = <<"nope", "/", "nope">>
    /\ cpc[1] = "done"
    /\ Types(yielded[1]) = <<"error", "exit">>

\* C17: the error event of a script path that no module answers carries a
\* message that contains the script path as the caller gave it.
C17_MessageHasPath ==
    \A e \in Executions :
        Unresolvable(e) =>
            \A i \in Positions(produced[e], {"error"}) :
                Contains(produced[e][i].error, path[e])

\* The module of e was found and has no callable run.
LacksRun(e) == module[e] # <<>> /\ ModuleFiles[module[e]] = "norun"

\* C18: when the module is found and has no callable run, the events put and
\* yielded are a prefix of [error, exit], all of it once the worker has left
\* and once the stream has ended; the message of the error contains the
\* script path; run is never called and nothing is written or redirected.
C18_MissingRun ==
    \A e \in Executions :
        LacksRun(e) =>
            /\ IsPrefix(Types(produced[e]), <<"error", "exit">>)
            /\ IsPrefix(Types(yielded[e]), <<"error", "exit">>)
            /\ wpc[e] \in {"returned", "done"} => Types(produced[e]) = <<"error", "exit">>
            /\ cpc[e] \in {"done", "escaped"} => Types(yielded[e]) = <<"error", "exit">>
            /\ \A i \in Positions(produced[e], {"error"}) :
                   Contains(produced[e][i].error, path[e])
            /\ raised[e] \in {"none", "ValueError"}
            /\ NeverInvoked(e)

\* The stream of a module without run has ended after error and exit.
C18_Witness ==
    /\ path[1] = <<"runtime">>
    /\ module[1] = <<Root, ".", "runtime">>
    /\ cpc[1] = "done"
    /\ Types(yielded[1]) = <<"error", "exit">>

\* The module n is the script root or inside it.
InRoot(n) == n = <<Root>> \/ IsPrefix(<<Root, ".">>, n)

\* The script path p climbs out of a directory ("..") or names an empty segment.
Traversal(p) ==
    \/ p = <<>>
    \/ p[1] \in {".", "/"}
    \/ \E i \in 1..(Len(p) - 1) : p[i] \in {".", "/"} /\ p[i + 1] \in {".", "/"}

\* C19: every module the loader has imported, and every module in
\* sys.modules because of it, is a module file inside the script root; a
\* script path with a traversal imports no module for the execution and ends
\* in the error of the failed import, with run never called.
C19_InsideRoot ==
    /\ \A n \in sys_modules : InRoot(n) /\ n \in DOMAIN ModuleFiles
    /\ \A e \in Executions :
           /\ module[e] # <<>> => InRoot(module[e]) /\ module[e] \in DOMAIN ModuleFiles
           /\ Requested(e) /\ Traversal(path[e]) =>
                  /\ module[e] = <<>>
                  /\ NeverInvoked(e)
                  /\ Resolved(e) => raised[e] = "ModuleNotFoundError"
                  /\ wpc[e] \in {"returned", "done"} => Types(produced[e]) = <<"error", "exit">>

\* The traversal path has ended in an error that names the root's package
\* with an empty module name.
C19_Witness ==
    /\ path[1] = <<".", ".", "/", "os">>
    /\ wpc[1] = "done"
    /\ produced[1] = <<ErrorEv(<<"Traceback (most recent call last):",
                                 "ModuleNotFoundError: No module named ", Root, ".">>),
                       ExitEv>>

\* What the loader of e ended with: the module whose run it took, or the
\* fault it raised.
Resolution(e) ==
    [module |-> module[e],
     run    |-> IF module[e] \in DOMAIN ModuleFiles THEN ModuleFiles[module[e]] ELSE "none",
     fault  |-> IF raised[e] \in {"ModuleNotFoundError", "ValueError"} THEN raised[e] ELSE "none"]

C15_OutputBeforeOutcome ==
    \A e \in Executions :
        \A i \in Positions(produced[e], Kinds) :
            \A j \in Positions(produced[e], {"result", "error", "exit"}) : i < j

\* s cut at every newline, as s.split("\n") cuts it: the lines a newline
\* ends, then what follows the last newline.
RECURSIVE Split(_)
Split(s) ==
    IF \E i \in DOMAIN s : s[i] = "\n"
    THEN LET i == CHOOSE k \in DOMAIN s : s[k] = "\n" /\ \A j \in 1..(k - 1) : s[j] # "\n"
         IN  <<SubSeq(s, 1, i - 1)>> \o Split(SubSeq(s, i + 1, Len(s)))
    ELSE <<s>>

\* The lines of s that a newline ends, and the rest of s without one.
CompleteLines(s) == SubSeq(Split(s), 1, Len(Split(s)) - 1)
Partial(s) == Split(s)[Len(Split(s))]

\* The members of the sequence of lines ls that are not blank, in order.
RECURSIVE NonBlank(_)
NonBlank(ls) ==
    IF ls = <<>> THEN <<>>
    ELSE (IF \A i \in DOMAIN Head(ls) : IsSpace(Head(ls)[i]) THEN <<>> ELSE <<Head(ls)>>)
         \o NonBlank(Tail(ls))

\* The texts of the events evs, in order.
TextsOf(evs) == [i \in DOMAIN evs |-> evs[i].text]

NewlinesIn(s) == Cardinality({i \in DOMAIN s : s[i] = "\n"})

\* The events the last call put.
LastPut == SubSeq(em.events, Len(em.events) - em.nput + 1, Len(em.events))

\* C11: every event an emitter has put, after any calls of write and flush,
\* has the emitter's kind and a text with a character that is not white
\* space; a call that found and was given only white space put nothing.
C11_NoBlankEvent ==
    /\ \A i \in DOMAIN em.events :
           /\ em.events[i].type = em.kind
           /\ \E j \in DOMAIN em.events[i].text : ~IsSpace(em.events[i].text[j])
    /\ (\A j \in DOMAIN (em.before \o em.arg) : IsSpace((em.before \o em.arg)[j])) => em.nput = 0

\* Three blank texts were written and flushed away without an event.
C11_Witness ==
    /\ em.calls = 3
    /\ em.last = "flush"
    /\ em.written = <<" ", "\n", " ">>
    /\ em.events = <<>>

C13_FlushOnce ==
    em.last = "flush" =>
        /\ em.nput = (IF \A j \in DOMAIN em.before : IsSpace(em.before[j]) THEN 0 ELSE 1)
        /\ em.buf = <<>>
        /\ em.prev = "flush" => em.nput = 0 /\ em.before = <<>>

\* A flush that put the partial line was followed by a flush that put nothing.
C13_Witness ==
    /\ em.prev = "flush"
    /\ em.last = "flush"
    /\ em.nput = 0
    /\ Len(em.events) = 1

\* C14: after writes followed by one flush, the texts of the events are the
\* non-blank lines of the text written, each with its characters unchanged.
C14_RoundTrip ==
    em.last = "flush" /\ em.flushes = 1 =>
        TextsOf(em.events) = NonBlank(Split(em.written))

\* The consumer of e gave the stream up before exit was yielded.
GivenUp(e) == thrown[e] # "none" /\ ~ExitYielded(e)

\* C21: a generator given up before exit that has left its finally block
\* waited for the future of the worker, and what leaves it is the fault that
\* was raised into it, not a fault of the awaited future.
C21_TeardownKeepsFault ==
    \A e \in Executions :
        GivenUp(e) /\ cpc[e] # "finally" => fut[e] # "pending" /\ cpc[e] = "done"

\* C22: the worker of a stream given up before exit still ends with its
\* result or error event and then exit on the queue.
C22_WorkerCompletes ==
    \A e \in Executions :
        GivenUp(e) /\ wpc[e] \in {"returned", "done"} =>
            /\ Len(produced[e]) >= 2
            /\ Last(produced[e]) = ExitEv
            /\ produced[e][Len(produced[e]) - 1].type \in {"result", "error"}

\* The entries of log that were written while the entry point executed.
InRun(w) == w.phase # "import"
RunLog(e) == SelectSeq(log[e], InRun)

\* The text that the first m entries of the sequence of entries ws wrote to
\* sys.<k>, joined.
RECURSIVE TextTo(_, _, _)
TextTo(ws, k, m) ==
    IF m = 0 THEN <<>>
    ELSE TextTo(ws, k, m - 1) \o (IF ws[m].kind = k THEN ws[m].text ELSE <<>>)

\* s is one non-blank line and its newline.
IsLine(s) ==
    /\ Len(s) >= 2
    /\ s[Len(s)] = "\n"
    /\ \A i \in 1..(Len(s) - 1) : s[i] # "\n"
    /\ \E i \in 1..(Len(s) - 1) : ~IsSpace(s[i])

\* The script of e wrote only whole non-blank lines, to stdout, one a write.
OnlyStdoutLines(e) ==
    \A i \in DOMAIN RunLog(e) :
        RunLog(e)[i].phase = "run" /\ RunLog(e)[i].kind = "stdout" /\ IsLine(RunLog(e)[i].text)

\* The stdout events of those lines.
LineEvents(e) ==
    [i \in DOMAIN RunLog(e) |->
        OutputEv("stdout", SubSeq(RunLog(e)[i].text, 1, Len(RunLog(e)[i].text) - 1))]

\* C23: for a script that wrote whole non-blank lines to stdout and returned
\* v, the events put and the events yielded are at every moment a prefix of
\* the stdout events of the lines in order, result(v), exit, and are all of it
\* once the worker has left and once the stream has ended.
C23_LinesThenResult ==
    \A e \in Executions :
        result[e] \in RetVals /\ OnlyStdoutLines(e) =>
            LET expected == LineEvents(e) \o <<ResultEv(result[e]), ExitEv>> IN
            /\ IsPrefix(produced[e], expected)
            /\ IsPrefix(yielded[e], expected)
            /\ wpc[e] \in {"returned", "done"} => produced[e] = expected
            /\ cpc[e] \in {"done", "escaped"} => yielded[e] = expected

\* Two lines, the value, exit: the stream has ended with all four delivered.
C23_Witness ==
    /\ cpc[1] = "done"
    /\ yielded[1] = << OutputEv("stdout", <<"a">>), OutputEv("stdout", <<"a">>),
                       ResultEv("r1"), ExitEv >>

\* C24: for a script that wrote whole non-blank lines to stdout and raised
\* an Exception, the events put are the stdout events of the lines in order,
\* then one error event whose text contains the message of the fault, then
\* exit, with no result event; the ended stream has yielded exactly these.
C24_LinesThenError ==
    \A e \in Executions :
        raised[e] = "ScriptError" /\ OnlyStdoutLines(e) =>
            LET n == Len(LineEvents(e)) IN
            /\ Len(produced[e]) <= n + 2
            /\ Len(produced[e]) >= n
            /\ SubSeq(produced[e], 1, n) = LineEvents(e)
            /\ Len(produced[e]) > n =>
                   /\ produced[e][n + 1].type = "error"
                   /\ Contains(produced[e][n + 1].error, Message(raised[e]))
            /\ Len(produced[e]) > n + 1 => produced[e][n + 2] = ExitEv
            /\ wpc[e] \in {"returned", "done"} => Len(produced[e]) = n + 2
            /\ IsPrefix(yielded[e], produced[e])
            /\ cpc[e] \in {"done", "escaped"} => yielded[e] = produced[e]

\* One line, the error, exit: the stream has ended with all three delivered.
C24_Witness ==
    /\ cpc[1] = "done"
    /\ raised[1] = "ScriptError"
    /\ Types(yielded[1]) = <<"stdout", "error", "exit">>
    /\ yielded[1][1] = OutputEv("stdout", <<"a">>)

\* The stdout and stderr events of the sequence of events s, in order.
IsOutput(ev) == ev.type \in Kinds
Outputs(s) == SelectSeq(s, IsOutput)

\* The number of events of kind k among the first n of the events s.
CountOf(s, k, n) == Cardinality({i \in 1..n : s[i].type = k})

\* The number of lines of kind k that the first m writes of e completed.
Completed(e, k, m) == Len(NonBlank(CompleteLines(TextTo(RunLog(e), k, m))))

\* C28: the stdout and stderr events put for the writes of the body are put
\* in the order in which the writes completed their lines: for every m, the
\* events of the lines that the first m writes completed come first, so an
\* event of a line completed by an earlier write precedes every event of a
\* line completed by a later one, whichever line was begun first; and the
\* events of one kind are the non-blank completed lines of the text written
\* to that kind, in write order.
C28_CompletionOrder ==
    \A e \in Executions :
        LET M == Len(RunLog(e))
            outs == Outputs(produced[e])
            upto(m) == Completed(e, "stdout", m) + Completed(e, "stderr", m)
        IN  /\ Len(outs) >= upto(M)
            /\ \A m \in 0..M : \A k \in Kinds :
                   CountOf(outs, k, upto(m)) = Completed(e, k, m)
            /\ \A k \in Kinds :
                   LET P == {i \in 1..upto(M) : outs[i].type = k} IN
                   \A i \in P :
                       outs[i].text =
                           NonBlank(CompleteLines(TextTo(RunLog(e), k, M)))[CountOf(outs, k, i)]

\* A line begun on stdout, a whole line on stderr, the stdout line completed:
\* the stderr event is put before the stdout event.
C28_Witness ==
    /\ log[1] = << Written("run", "stdout", <<"a">>), Written("run", "stderr", <<"a", "\n">>),
                   Written("run", "stdout", <<"a", "\n">>) >>
    /\ produced[1] = << OutputEv("stderr", <<"a">>), OutputEv("stdout", <<"a", "a">>) >>

\* The module of e was found and its run does not take (params, lang).
WrongSignature(e) == module[e] # <<>> /\ ModuleFiles[module[e]] = "badsig"

\* C29: a module whose run is callable and does not take two arguments
\* passes the check of the loader and fails at the call: the only fault is
\* the TypeError of the call, the body of run never executes and writes
\* nothing, and the events put and yielded are a prefix of [error, exit], the
\* error being that TypeError, all of it once the worker has left and once
\* the stream has ended.
C29_FailsAtCall ==
    \A e \in Executions :
        WrongSignature(e) =>
            /\ raised[e] \in {"none", "TypeError"}
            /\ raised[e] = "TypeError" => wpc[e] \notin {"import", "getattr", "enter_out", "enter_err", "call"}
            /\ wpc[e] \notin {"body", "print", "flush_out", "flush_err", "put_result"}
            /\ nwrites[e] = 0 /\ RunLog(e) = <<>> /\ result[e] = "none"
            /\ IsPrefix(produced[e], <<ErrorEv(Rendered("TypeError", path[e])), ExitEv>>)
            /\ IsPrefix(yielded[e], produced[e])
            /\ wpc[e] \in {"returned", "done"} => Len(produced[e]) = 2
            /\ cpc[e] \in {"done", "escaped"} => yielded[e] = produced[e]

\* The script with run(params) has ended in error and exit, its with block
\* entered and left.
C29_Witness ==
    /\ path[1] = <<"beginner", "/", "sma_strategy">>
    /\ cpc[1] = "done"
    /\ Types(yielded[1]) = <<"error", "exit">>
    /\ raised[1] = "TypeError"

GuardEntries(e) == {i \in DOMAIN log[e] : log[e][i].phase = "guard"}

\* s ends with suf.
EndsWith(s, suf) ==
    Len(suf) <= Len(s) /\ SubSeq(s, Len(s) - Len(suf) + 1, Len(s)) = suf

\* What follows the stdout event at position i of the events of e when the
\* wrapper caught the fault x: with reraise exactly one error event, later
\* than i, and no result; without it one result event {"error": str(x)} and
\* no error event.
GuardOutcome(e, i, x) ==
    IF guard[e] = "reraise"
    THEN /\ Cardinality(Positions(produced[e], {"error"})) = 1
         /\ \A j \in Positions(produced[e], {"error"}) : i < j
         /\ Positions(produced[e], {"result"}) = {}
    ELSE /\ Positions(produced[e], {"error"}) = {}
         /\ Cardinality(Positions(produced[e], {"result"})) = 1
         /\ \A j \in Positions(produced[e], {"result"}) :
                produced[e][j] = ResultEv(ErrorDict(x))

\* A decorated entry point that returned normally: nothing was printed by
\* the wrapper and the result event carries the value returned.
GuardPassesThrough(e) ==
    GuardEntries(e) = {} /\ result[e] \in RetVals =>
        /\ \A i \in Positions(produced[e], Kinds) : ~Contains(produced[e][i].text, <<"ERROR: ">>)
        /\ \A j \in Positions(produced[e], {"result"}) : produced[e][j] = ResultEv(result[e])
        /\ Cardinality(Positions(produced[e], {"result"})) = 1
        /\ Positions(produced[e], {"error"}) = {}

C27_StreamsRestored ==
    (\A e \in Executions : wpc[e] = "done") =>
        sys_stdout = OrigStdout /\ sys_stderr = OrigStderr

\* C25: the messages sent are the messages of the events yielded, one for
\* each in order, and a response that has ended (not broken off) ends with
\* the message of a result or error event and then the message of exit.
C25_CleanEndHasExit ==
    \A e \in Executions :
        /\ sent[e] = [i \in DOMAIN sent[e] |-> Msg("message", Json(yielded[e][i]))]
        /\ http[e] = "ended" =>
               /\ Len(sent[e]) >= 2
               /\ Last(sent[e]) = Msg("message", Json(ExitEv))
               /\ sent[e][Len(sent[e]) - 1].data[2].type \in {"result", "error"}

====
